---- MODULE Spec2Model ----
(***************************************************************************)
(* Model of the VAP MCP proxy (src/mcp/vap_mcp_proxy.py): the remote API   *)
(* client, the tool normalizers, the JSON-RPC dispatcher and the line      *)
(* transport (run_stdio).                                                  *)
(*                                                                         *)
(* JSON / Python values are tagged records, so that values of different    *)
(* Python types can be compared; Python's dict.get, truthiness, `in` and   *)
(* isinstance are modelled on the tags.  An exception is a handler outcome *)
(* with raised = TRUE.  The remote service is nondeterministic: every      *)
(* remote call receives one outcome drawn from a bounded set.              *)
(***************************************************************************)
EXTENDS Integers, Sequences, FiniteSets, TLC

VARIABLES
    pc,          \* run_stdio: "reading" (in the for-loop), "eof" (returned), "crashed" (exception escaped)
    stdin_read,  \* the lines consumed from sys.stdin so far, in order
    stdout,      \* the lines printed to sys.stdout so far, in order
    remote,      \* the outbound HTTP calls made while handling the most recent line
    ret,         \* what process_request did for the most recent line
    rfile,       \* do_POST: the body of the POST being served
    wfile        \* do_POST: the HTTP responses sent on that POST's connection

vars == <<pc, stdin_read, stdout, remote, ret, rfile, wfile>>

\* Number of input lines a behaviour of the line transport reads.
MaxLines == 2

-----------------------------------------------------------------------------
(* JSON / Python values *)

JV(tag, n, s) == [tag |-> tag, n |-> n, s |-> s]
Absent == JV("absent", 0, "")          \* the key is not in the mapping
None == JV("null", 0, "")              \* JSON null / Python None
Num(i) == JV("int", i, "")
Float(i) == JV("float", i, "")         \* the float i.0
Money(c) == JV("money", c, "")         \* the float c / 100 (a price)
Str(x) == JV("str", 0, x)
Bool(b) == JV("bool", IF b THEN 1 ELSE 0, "")
List(k) == JV("list", k, "")           \* some list of length k
Dict(k) == JV("dict", k, "")           \* some mapping with k keys

\* Python truthiness (bool(v)).
Truthy(v) ==
    CASE v.tag \in {"absent", "null"} -> FALSE
      [] v.tag \in {"bool", "int", "float", "money", "list", "dict"} -> v.n # 0
      [] v.tag = "str" -> v.s # ""

\* mapping.get(key, default): the default only when the key is absent.
Get(v, default) == IF v = Absent THEN default ELSE v

\* `a or b`
Or(a, b) == IF Truthy(a) THEN a ELSE b

\* v in (c1, c2, ...) for a tuple of ints: == on numbers (4.0 == 4, True == 1).
InInts(v, ints) == v.tag \in {"int", "float", "bool"} /\ v.n \in ints

\* v in (s1, s2, ...) for a tuple of strings.
InStrs(v, strs) == v.tag = "str" /\ v.s \in strs

\* hash(v): lists and dicts are unhashable (TypeError).
Hashable(v) == v.tag \notin {"list", "dict"}

-----------------------------------------------------------------------------
(* Documents: decoded JSON bodies and handler results (one record shape).   *)

NoFirst == [shape |-> "absent", audio_url |-> Absent, image_url |-> Absent]
NoItems == [shape |-> "absent", first |-> NoFirst]
NoResult ==
    [shape |-> "absent", video_url |-> Absent, output_url |-> Absent,
     image_url |-> Absent, items |-> NoItems]
NoDetail == [shape |-> "absent", message |-> Absent]

\* A dict with none of the keys the proxy reads (shape "dict"), or another
\* JSON value (shape "list", "null", "str").
Doc(shape) ==
    [shape |-> shape, error |-> Absent, isError |-> Absent, content |-> <<>>,
     task_id |-> Absent, estimated_cost |-> Absent, status |-> Absent,
     type |-> Absent, actual_cost |-> Absent, error_message |-> Absent,
     result |-> NoResult, detail |-> NoDetail]

\* One line of a text content block: a label and the value formatted into it.
TextLine(k, v) == [k |-> k, v |-> v]

\* {"error": e}
ErrorDoc(e) == [Doc("dict") EXCEPT !.error = e]

\* {"isError": True, "content": [{"type": "text", "text": f"Error: {e}"}]}
ErrorResultUnwrapped(e) == ErrorDoc(e)
ErrorResult(e) ==
    [Doc("dict") EXCEPT !.isError = Bool(TRUE),
                        !.content = <<TextLine("Error", e)>>]

\* {"content": [{"type": "text", "text": "\n".join(lines)}]}
TextResult(lines) == [Doc("dict") EXCEPT !.content = lines]

\* `"error" in d` raises TypeError on None and numbers; on a string it is a
\* substring test; on a list a membership test; on a dict a key test.
InRaises(d) == d.shape \in {"null", "int"}
HasError(d) ==
    CASE d.shape = "dict" -> d.error # Absent
      [] d.shape = "str" -> d.error # Absent      \* the string contains "error"
      [] d.shape = "list" -> d.error # Absent     \* the list has an element "error"
      [] OTHER -> FALSE

-----------------------------------------------------------------------------
(* Remote API client *)

\* What the remote service does with one call: status 0 is a transport
\* failure (no response), json says whether the body decodes as JSON,
\* text is the length of the raw body.
Outcome(status, json, text, body) ==
    [status |-> status, json |-> json, text |-> text, body |-> body]

\* response.raise_for_status() passes and response.json() decodes.
Succeeds(ro) == ro.status \in 200..299 /\ ro.json

\* str(e) of the exception the HTTP library raises.
ExcText(ro) ==
    CASE ro.status = 0 -> "ConnectError"
      [] ro.status \in 200..299 -> "JSONDecodeError"
      [] ro.status = 402 -> "HTTPStatusError 402"
      [] OTHER -> "HTTPStatusError 5xx"

\* f"{path}{arg}"
Endpoint(path, arg) == [path |-> path, arg |-> arg]

Call(verb, base, endpoint, timeout, payload, ro) ==
    [verb |-> verb, base |-> base, endpoint |-> endpoint, timeout |-> timeout,
     payload |-> payload, outcome |-> ro]

\* What a client function gives back: the value and the HTTP calls it made.
Made(value, calls) == [value |-> value, calls |-> calls]

make_request_retrying(endpoint, payload, ro) ==
    LET call == Call("POST", "API_URL", endpoint, 60, payload, ro) IN
    Made(IF Succeeds(ro) THEN ro.body ELSE ErrorDoc(Str(ExcText(ro))),
         IF Succeeds(ro) THEN <<call>> ELSE <<call, call>>)
make_request(endpoint, payload, ro) ==
    Made(IF Succeeds(ro) THEN ro.body ELSE ErrorDoc(Str(ExcText(ro))),
         <<Call("POST", "API_URL", endpoint, 60, payload, ro)>>)

\* e.response.text[:500]
TextLimit == 500
Truncated(len) == JV("str", IF len > TextLimit THEN TextLimit ELSE len, "response.text")

\* D#509: error_detail from the failing response's body.  Only an HTTP status
\* error carries e.response; ro.text is the length of the raw body.
v3_error_detail(ro) ==
    IF ro.status = 0 \/ ro.status \in 200..299
    THEN Str(ExcText(ro))
    ELSE IF ~ro.json
         THEN IF ro.text > 0 THEN Truncated(ro.text) ELSE Str(ExcText(ro))
         ELSE IF ro.body.shape # "dict"
              THEN Str(ExcText(ro))
              ELSE LET detail == ro.body.detail IN
                   CASE detail.shape \in {"absent", "dict"} ->
                            Get(detail.message, Str("str(detail)"))
                     [] detail.shape = "str" -> Str("detail")
                     [] OTHER -> Str("str(error_body)")

make_v3_request(endpoint, payload, ro) ==
    Made(IF Succeeds(ro) THEN ro.body ELSE ErrorDoc(v3_error_detail(ro)),
         <<Call("POST", "API_BASE_URL", endpoint, 120, payload, ro)>>)

make_v3_get_request(endpoint, ro) ==
    Made(IF Succeeds(ro) THEN ro.body ELSE ErrorDoc(Str(ExcText(ro))),
         <<Call("GET", "API_BASE_URL", endpoint, 30, Doc("null"), ro)>>)

-----------------------------------------------------------------------------
(* Handler outcomes *)

Return(value, calls) == [raised |-> FALSE, exc |-> "", value |-> value, calls |-> calls]
Raise(exc, calls) == [raised |-> TRUE, exc |-> exc, value |-> Doc("null"), calls |-> calls]

-----------------------------------------------------------------------------
(* Requests *)

NoArgs(shape) ==
    [shape |-> shape, prompt |-> Absent, duration |-> Absent,
     aspect_ratio |-> Absent, generate_audio |-> Absent, resolution |-> Absent,
     negative_prompt |-> Absent, task_id |-> Absent]

NoParams(shape) ==
    [shape |-> shape, protocolVersion |-> Absent, capabilities |-> Absent,
     clientInfo |-> Absent, name |-> Absent, arguments |-> NoArgs("absent"),
     uri |-> Absent]

\* A decoded line: shape "dict" is a JSON object, anything else another JSON value.
Request(shape, id, method, params) ==
    [shape |-> shape, id |-> id, method |-> method, params |-> params]

-----------------------------------------------------------------------------
(* Pricing (Directive #242) *)

VIDEO_COSTS_WITH_AUDIO == (4 :> Money(240)) @@ (6 :> Money(360)) @@ (8 :> Money(480))
VIDEO_COSTS_NO_AUDIO == (4 :> Money(120)) @@ (6 :> Money(180)) @@ (8 :> Money(240))
DefaultCost == Money(480)

\* cost_table.get(duration, 4.80)
CostGet(cost_table, duration) ==
    IF InInts(duration, DOMAIN cost_table) THEN cost_table[duration.n] ELSE DefaultCost

-----------------------------------------------------------------------------
(* MCP method handlers *)

handle_initialize(params, ro) ==
    IF params.shape # "dict" THEN Raise("AttributeError", <<>>)
    ELSE LET m == make_request(Endpoint("/initialize", Absent),
                     [protocolVersion |-> Get(params.protocolVersion, None),
                      capabilities |-> Get(params.capabilities, Dict(0)),
                      clientInfo |-> Get(params.clientInfo, Dict(0))], ro)
         IN Return(m.value, m.calls)

handle_tools_list(params, ro) ==
    LET m == make_request(Endpoint("/tools/list", Absent), Dict(0), ro)
    IN Return(m.value, m.calls)

\* Validate duration (Veo 3.1: 4, 6, 8 seconds)
CoerceDurationKeepsFive(duration) == IF InInts(duration, {4, 5, 6, 8}) THEN duration ELSE Num(8)
CoerceDuration(duration) == IF InInts(duration, {4, 6, 8}) THEN duration ELSE Num(8)

\* Validate aspect ratio (Veo 3.1: 16:9, 9:16)
CoerceAspectRatio(aspect_ratio) ==
    IF InStrs(aspect_ratio, {"16:9", "9:16"}) THEN aspect_ratio ELSE Str("16:9")

\* Validate resolution
CoerceResolution(resolution) ==
    IF InStrs(resolution, {"720p", "1080p"}) THEN resolution ELSE Str("720p")

\* `if not prompt:` / `if not task_id:`
MissingArgNoneOnly(v) == v.tag = "null"
MissingArg(v) == ~Truthy(v)

\* `if "error" in response: ... response['error']` followed by response.get(...):
\* what the two special-cased handlers do with the client's value before
\* formatting it.  "ok" means the value is a dict without an error key.
ResponseCheck(response) ==
    CASE InRaises(response) -> "TypeError"
      [] HasError(response) /\ response.shape = "dict" -> "error"
      [] HasError(response) -> "TypeError"
      [] response.shape # "dict" -> "AttributeError"
      [] OTHER -> "ok"

_handle_generate_video(arguments, ro) ==
    IF arguments.shape # "dict" THEN Raise("AttributeError", <<>>)
    ELSE
    LET prompt == Get(arguments.prompt, Str(""))
        duration == CoerceDuration(Get(arguments.duration, Num(8)))
        aspect_ratio == CoerceAspectRatio(Get(arguments.aspect_ratio, Str("16:9")))
        generate_audio == Get(arguments.generate_audio, Bool(TRUE))
        resolution == CoerceResolution(Get(arguments.resolution, Str("720p")))
        negative_prompt == Get(arguments.negative_prompt, Str(""))
        params == [prompt |-> prompt, duration |-> duration,
                   aspect_ratio |-> aspect_ratio, generate_audio |-> generate_audio,
                   resolution |-> resolution,
                   negative_prompt |->
                       IF Truthy(negative_prompt) THEN negative_prompt ELSE Absent]
        m == make_v3_request(Endpoint("/v3/tasks", Absent),
                             [type |-> "video", params |-> params], ro)
        response == m.value
        check == ResponseCheck(response)
        cost_table == IF Truthy(generate_audio) THEN VIDEO_COSTS_WITH_AUDIO
                      ELSE VIDEO_COSTS_NO_AUDIO
    IN  IF MissingArg(prompt)
        THEN Return(ErrorResult(Str("prompt is required")), <<>>)
        ELSE CASE check = "error" -> Return(ErrorResult(response.error), m.calls)
               [] check = "ok" ->
                    Return(TextResult(<<
                        TextLine("Task ID", Get(response.task_id, Str("unknown"))),
                        TextLine("Duration", duration),
                        TextLine("Aspect Ratio", aspect_ratio),
                        TextLine("Resolution", resolution),
                        TextLine("Audio", Str(IF Truthy(generate_audio) THEN "Yes" ELSE "No")),
                        TextLine("Estimated Cost",
                                 Get(response.estimated_cost, CostGet(cost_table, duration)))
                        >>), m.calls)
               [] OTHER -> Raise(check, m.calls)

\* The price the text states: the literal of the f-string, whatever `cost` is.
CostShownComputed(cost) == cost
CostShown(cost) == Str("$1.96 USD (fixed price)")

_handle_estimate_video_cost(arguments, ro) ==
    IF arguments.shape # "dict" THEN Raise("AttributeError", <<>>)
    ELSE
    LET duration == CoerceDuration(Get(arguments.duration, Num(8)))
        generate_audio == Get(arguments.generate_audio, Bool(TRUE))
        cost_table == IF Truthy(generate_audio) THEN VIDEO_COSTS_WITH_AUDIO
                      ELSE VIDEO_COSTS_NO_AUDIO
        cost == CostGet(cost_table, duration)         \* computed and not used
    IN  Return(TextResult(<<
            TextLine("Video Generation Cost", CostShown(cost)),
            TextLine("Provider", Str("Veo 3.1")),
            TextLine("Requires", Str("Tier 2+"))>>), <<>>)

\* result.get(key): None when the key is absent.
GetNone(v) == Get(v, None)

\* The line appended for status "completed": audio, else video, else image.
OutputUrlLineVideoFirst(audio_url, video_url, image_url) ==
    CASE Truthy(video_url) -> <<TextLine("Video URL", video_url)>>
      [] Truthy(audio_url) -> <<TextLine("Audio URL", audio_url)>>
      [] Truthy(image_url) -> <<TextLine("Image URL", image_url)>>
      [] OTHER -> <<>>
OutputUrlLine(audio_url, video_url, image_url) ==
    CASE Truthy(audio_url) -> <<TextLine("Audio URL", audio_url)>>
      [] Truthy(video_url) -> <<TextLine("Video URL", video_url)>>
      [] Truthy(image_url) -> <<TextLine("Image URL", image_url)>>
      [] OTHER -> <<>>

\* The status-dependent end of the summary: the URL line for "completed", the
\* error line for "failed" with a message, the notice for a task in progress.
StatusLinesErrorAlways(status, error_message, url_line) ==
    CASE status = Str("completed") -> url_line
      [] status = Str("failed") -> <<TextLine("Error", error_message)>>
      [] InStrs(status, {"pending", "queued", "executing"}) ->
           <<TextLine("Task is still", status)>>
      [] OTHER -> <<>>
StatusLines(status, error_message, url_line) ==
    CASE status = Str("completed") -> url_line
      [] status = Str("failed") /\ Truthy(error_message) ->
           <<TextLine("Error", error_message)>>
      [] InStrs(status, {"pending", "queued", "executing"}) ->
           <<TextLine("Task is still", status)>>
      [] OTHER -> <<>>

_handle_get_task(arguments, ro) ==
    IF arguments.shape # "dict" THEN Raise("AttributeError", <<>>)
    ELSE
    LET task_id == Get(arguments.task_id, Str(""))
        m == make_v3_get_request(Endpoint("/v3/tasks/", task_id), ro)
        response == m.value
        check == ResponseCheck(response)
        status == Get(response.status, Str("unknown"))
        task_type == Get(response.type, Str("unknown"))
        estimated_cost == Get(response.estimated_cost, Str("N/A"))
        actual_cost == Get(response.actual_cost, Str("N/A"))
        error_message == GetNone(response.error_message)
        \* response.get("result", {}) or {}
        result == IF response.result.shape \in {"absent", "null"}
                  THEN [NoResult EXCEPT !.shape = "dict"] ELSE response.result
        video_url == Or(GetNone(result.video_url), GetNone(result.output_url))
        image_url0 == Or(GetNone(result.image_url), GetNone(result.output_url))
        items == result.items
        \* if items and isinstance(items, list) and len(items) > 0
        has_first == items.shape = "list"
        audio_url == IF has_first THEN GetNone(items.first.audio_url) ELSE None
        image_url == IF has_first /\ ~Truthy(image_url0)
                     THEN GetNone(items.first.image_url) ELSE image_url0
        head == <<TextLine("Task", task_id), TextLine("Type", task_type),
                  TextLine("Status", status), TextLine("Estimated Cost", estimated_cost)>>
        cost == IF Truthy(actual_cost) /\ actual_cost # Str("N/A")
                THEN <<TextLine("Actual Cost", actual_cost)>> ELSE <<>>
        tail == StatusLines(status, error_message,
                            OutputUrlLine(audio_url, video_url, image_url))
    IN  IF MissingArg(task_id)
        THEN Return(ErrorResult(Str("task_id is required")), <<>>)
        ELSE CASE check = "error" -> Return(ErrorResult(response.error), m.calls)
               [] check = "ok" ->
                    IF result.shape # "dict" \/ (has_first /\ items.first.shape # "dict")
                    THEN Raise("AttributeError", m.calls)
                    ELSE Return(TextResult(head \o cost \o tail), m.calls)
               [] OTHER -> Raise(check, m.calls)

handle_tools_call(params, ro) ==
    IF params.shape # "dict" THEN Raise("AttributeError", <<>>)
    ELSE
    LET tool_name == Get(params.name, Str(""))
        arguments == IF params.arguments.shape = "absent" THEN NoArgs("dict")
                     ELSE params.arguments
        m == make_request(Endpoint("/tools/call", Absent),
                          [name |-> tool_name, arguments |-> arguments], ro)
    IN  CASE tool_name = Str("generate_video") -> _handle_generate_video(arguments, ro)
          [] tool_name = Str("estimate_video_cost") -> _handle_estimate_video_cost(arguments, ro)
          [] tool_name = Str("get_task") -> _handle_get_task(arguments, ro)
          [] OTHER -> Return(m.value, m.calls)

handle_resources_list(params, ro) ==
    LET m == make_request(Endpoint("/resources/list", Absent), Dict(0), ro)
    IN Return(m.value, m.calls)

handle_resources_read(params, ro) ==
    IF params.shape # "dict" THEN Raise("AttributeError", <<>>)
    ELSE LET m == make_request(Endpoint("/resources/read", Absent),
                               [params |-> [uri |-> GetNone(params.uri)]], ro)
         IN Return(m.value, m.calls)

\* Method routing table
METHOD_HANDLERS ==
    {"initialize", "tools/list", "tools/call", "resources/list", "resources/read"}

\* METHOD_HANDLERS[method](params)
Handle(method, params, ro) ==
    CASE method = "initialize" -> handle_initialize(params, ro)
      [] method = "tools/list" -> handle_tools_list(params, ro)
      [] method = "tools/call" -> handle_tools_call(params, ro)
      [] method = "resources/list" -> handle_resources_list(params, ro)
      [] method = "resources/read" -> handle_resources_read(params, ro)

-----------------------------------------------------------------------------
(* JSON-RPC protocol *)

ParseErrorCode == -32700
MethodNotFoundCode == -32601
HandlerErrorCode == -32000

create_response(id, result) == [jsonrpc |-> "2.0", id |-> id, result |-> result]

create_error(id, code, message) ==
    [jsonrpc |-> "2.0", id |-> id, error |-> [code |-> code, message |-> message]]

\* f"{fmt}{arg}"
Msg(fmt, arg) == [fmt |-> fmt, arg |-> arg]

\* What process_request does: returns None, returns an envelope, or raises.
\* `handler` names the table entry whose handler ran, "" when none did.
RetNone(log) ==
    [kind |-> "none", response |-> None, exc |-> "", calls |-> <<>>, log |-> log,
     handler |-> ""]
RetResponse(response, calls, handler) ==
    [kind |-> "response", response |-> response, exc |-> "", calls |-> calls,
     log |-> "info", handler |-> handler]
RetRaise(exc) ==
    [kind |-> "raise", response |-> None, exc |-> exc, calls |-> <<>>, log |-> "",
     handler |-> ""]

\* request_id is None: the key is absent, or present with the value null.
is_notification(request) == Get(request.id, None) = None

\* The method names of the model that start with "notifications/".
NotificationNames ==
    {"notifications/initialized", "notifications/progress", "notifications/cancelled"}

\* The id-less branch: log by method name, return None.
Notification(method) ==
    CASE method = Str("notifications/initialized") -> RetNone("info")
      [] method.tag # "str" -> RetRaise("AttributeError")       \* method.startswith
      [] OTHER -> RetNone(IF method.s \in NotificationNames THEN "debug" ELSE "warning")

\* The try block (lines 493-504): the handler's result to an envelope.
Envelope(request_id, hr) ==
    IF hr.raised THEN create_error(request_id, HandlerErrorCode, Msg("", Str(hr.exc)))
    ELSE LET result == hr.value IN
         CASE InRaises(result) ->
                  create_error(request_id, HandlerErrorCode, Msg("", Str("TypeError")))
           [] HasError(result) /\ result.shape # "dict" ->
                  create_error(request_id, HandlerErrorCode, Msg("", Str("TypeError")))
           [] HasError(result) /\ result.error.tag = "str" ->
                  create_error(request_id, HandlerErrorCode, Msg("", result.error))
           [] OTHER -> create_response(request_id, result)

process_request(request, ro) ==
    IF request.shape # "dict" THEN RetRaise("AttributeError")    \* request.get
    ELSE
    LET request_id == Get(request.id, None)
        method == Get(request.method, Str(""))
        \* request.get("params") or {}
        params == IF request.params.shape \in {"absent", "null"}
                  THEN NoParams("dict") ELSE request.params
    IN  IF is_notification(request) THEN Notification(method)
        ELSE IF ~Hashable(method) THEN RetRaise("TypeError")     \* METHOD_HANDLERS.get
        ELSE IF ~(method.tag = "str" /\ method.s \in METHOD_HANDLERS)
        THEN RetResponse(create_error(request_id, MethodNotFoundCode,
                                      Msg("Method not found: ", method)), <<>>, "")
        ELSE LET hr == Handle(method.s, params, ro)
             IN RetResponse(Envelope(request_id, hr), hr.calls, method.s)

-----------------------------------------------------------------------------
(* The remote service: the outcomes a call can receive *)

Failures ==
    { Outcome(0, FALSE, 0, Doc("null")),             \* no connection, timeout
      Outcome(500, FALSE, 600, Doc("text")),         \* 500 with a long non-JSON body
      Outcome(402, TRUE, 40,
              [Doc("dict") EXCEPT !.detail =
                  [shape |-> "dict", message |-> Str("Insufficient balance")]]) }

\* A 2xx answer with a JSON object that has no "error" key.
PlainOk == Outcome(200, TRUE, 20, Doc("dict"))

OddBodies ==
    { Outcome(200, TRUE, 20, ErrorDoc(Str("tool failed"))),      \* {"error": "..."}
      Outcome(200, TRUE, 20, ErrorDoc(Dict(1))),                 \* {"error": {...}}
      Outcome(200, TRUE, 20, Doc("list")),                       \* [...]
      Outcome(200, TRUE, 20, [Doc("list") EXCEPT !.error = Str("error")]),   \* ["error"]
      Outcome(200, TRUE, 20, [Doc("str") EXCEPT !.error = Str("error")]),    \* "an error"
      Outcome(200, TRUE, 4, Doc("null")),                        \* null
      Outcome(200, FALSE, 20, Doc("text")) }                     \* not JSON

MoreFailures ==
    { Outcome(500, FALSE, 0, Doc("text")),           \* 500 with an empty body
      Outcome(500, TRUE, 20, Doc("list")),           \* 500 with a JSON list
      Outcome(402, TRUE, 40, Doc("dict")),           \* no "detail"
      Outcome(402, TRUE, 40,
              [Doc("dict") EXCEPT !.detail = [shape |-> "str", message |-> Absent]]),
      Outcome(402, TRUE, 40,
              [Doc("dict") EXCEPT !.detail = [shape |-> "list", message |-> Absent]]),
      Outcome(402, TRUE, 40,
              [Doc("dict") EXCEPT !.detail = [shape |-> "dict", message |-> Absent]]),
      Outcome(402, TRUE, 40,
              [Doc("dict") EXCEPT !.detail = [shape |-> "dict", message |-> None]]) }

\* POST /v3/tasks -> {task_id, estimated_cost?}
CreatedTasks ==
    { Outcome(200, TRUE, 40, [Doc("dict") EXCEPT !.task_id = t, !.estimated_cost = c]) :
        t \in {Absent, Str("t-1")}, c \in {Absent, Money(196)} }

Urls(u) == {Absent, Str(""), Str(u)}

Firsts ==
    { [shape |-> "dict", audio_url |-> a, image_url |-> i] :
        a \in {Absent, Str("https://x/a.mp3")}, i \in {Absent, Str("https://x/i0.png")} }
    \cup { [NoFirst EXCEPT !.shape = "str"] }

ItemsDocs ==
    { NoItems, [NoItems EXCEPT !.shape = "emptylist"], [NoItems EXCEPT !.shape = "dict"] }
    \cup { [shape |-> "list", first |-> f] : f \in Firsts }

ResultDocs ==
    { NoResult, [NoResult EXCEPT !.shape = "null"], [NoResult EXCEPT !.shape = "str"] }
    \cup { [shape |-> "dict", video_url |-> v, output_url |-> o, image_url |-> i, items |-> it] :
             v \in {Absent, Str("https://x/v.mp4")}, o \in {Absent, Str("https://x/o.bin")},
             i \in Urls("https://x/i.png"), it \in ItemsDocs }

Statuses ==
    {Absent, Str("completed"), Str("failed"), Str("pending"), Str("queued"),
     Str("executing"), Str("cancelled")}

\* GET /v3/tasks/{task_id} -> the task's status document
TaskDocs ==
    { Outcome(200, TRUE, 40,
              [Doc("dict") EXCEPT !.status = s, !.type = ty, !.estimated_cost = Money(196),
                                  !.actual_cost = ac, !.error_message = em, !.result = r]) :
        s \in Statuses, ty \in {Absent, Str("music"), Str("video")},
        ac \in {Absent, Num(0), Money(196)},
        em \in {Absent, Str(""), Str("quota exceeded")}, r \in ResultDocs }

\* The outcomes of the call that handling `request` makes, if it makes one:
\* `narrow` keeps the set small for runs of several lines.
Unused == Outcome(0, FALSE, 0, Doc("null"))
OutcomesFor(request, narrow) ==
    LET calls == process_request(request, PlainOk).calls IN
    IF calls = <<>> THEN {Unused}
    ELSE IF narrow
    THEN {Unused, PlainOk}
    ELSE Failures \cup MoreFailures \cup OddBodies \cup {PlainOk}
         \cup (IF calls[1].verb = "GET" THEN TaskDocs
               ELSE IF calls[1].base = "API_BASE_URL" THEN CreatedTasks ELSE {})

-----------------------------------------------------------------------------
(* The inbound messages *)

Ids == {Absent, None, Num(0), Num(7)}

ToolCall(name, arguments) == [NoParams("dict") EXCEPT !.name = name, !.arguments = arguments]

VideoArgs(prompt) == [NoArgs("dict") EXCEPT !.prompt = prompt]
TaskArgs(task_id) == [NoArgs("dict") EXCEPT !.task_id = task_id]

\* The tools/call params of the line transport's runs.
ToolCalls ==
    { ToolCall(Str("generate_video"), VideoArgs(Str("a cat"))),
      ToolCall(Str("generate_video"), VideoArgs(Str(""))),
      ToolCall(Str("estimate_video_cost"), NoArgs("dict")),
      ToolCall(Str("get_task"), TaskArgs(Str("t-1"))),
      ToolCall(Str("get_task"), NoArgs("absent")),
      ToolCall(Str("generate_image"), VideoArgs(Str("a cat"))),
      ToolCall(Str("generate_image"), NoArgs("null")),
      NoParams("list") }

MethodParams ==
    { <<Str("notifications/initialized"), NoParams("absent")>>,
      <<Str("notifications/progress"), NoParams("absent")>>,
      <<Str("foo/bar"), NoParams("absent")>>,
      <<Absent, NoParams("absent")>>,
      <<Num(5), NoParams("absent")>>,
      <<List(1), NoParams("absent")>>,
      <<Str("initialize"), [NoParams("dict") EXCEPT !.protocolVersion = Str("2024-11-05")]>>,
      <<Str("initialize"), NoParams("list")>>,
      <<Str("tools/list"), NoParams("absent")>>,
      <<Str("resources/list"), NoParams("null")>>,
      <<Str("resources/read"), [NoParams("dict") EXCEPT !.uri = Str("vap://x")]>>,
      <<Str("resources/read"), NoParams("list")>> }
    \cup { <<Str("tools/call"), p>> : p \in ToolCalls }

\* The id-less and null-id messages of the line transport's runs.
QuietMethodParams ==
    { <<Str("notifications/initialized"), NoParams("absent")>>,
      <<Str("notifications/progress"), NoParams("absent")>>,
      <<Str("foo/bar"), NoParams("absent")>>,
      <<Num(5), NoParams("absent")>>,
      <<Str("tools/list"), NoParams("absent")>>,
      <<Str("tools/call"), ToolCall(Str("generate_video"), VideoArgs(Str("a cat")))>>,
      <<Str("tools/call"), ToolCall(Str("generate_image"), VideoArgs(Str("a cat")))>> }

\* The decoded lines of the line transport's runs.
Requests ==
    { Request("dict", id, mp[1], mp[2]) : id \in {Num(0), Num(7)}, mp \in MethodParams }
    \cup { Request("dict", id, mp[1], mp[2]) : id \in {Absent, None}, mp \in QuietMethodParams }
    \cup { Request("list", Absent, Absent, NoParams("absent")) }

\* The tools/call params of the single-message runs: every combination of
\* present, absent, valid and invalid arguments.
WideVideoArgs ==
    { [NoArgs("dict") EXCEPT !.prompt = p, !.duration = d, !.aspect_ratio = a,
                             !.resolution = r, !.generate_audio = g, !.negative_prompt = n] :
        p \in {Absent, None, Str(""), Str("a cat")},
        d \in {Absent, None, Num(4), Num(6), Num(8), Num(5), Float(4), Str("8")},
        a \in {Absent, Str("16:9"), Str("9:16"), Str("4:3")},
        r \in {Absent, Str("720p"), Str("1080p"), Str("4k")},
        g \in {Absent, Bool(TRUE), Bool(FALSE)},
        n \in {Absent, Str("blurry")} }

WideTaskArgs == { TaskArgs(id) : id \in {Absent, None, Str(""), Str("t-1")} }

WideToolCalls ==
    ToolCalls
    \cup { ToolCall(Str("generate_video"), a) : a \in WideVideoArgs }
    \cup { ToolCall(Str("estimate_video_cost"), a) :
             a \in { x \in WideVideoArgs : x.prompt = Absent /\ x.aspect_ratio = Absent
                                           /\ x.resolution = Absent /\ x.negative_prompt = Absent } }
    \cup { ToolCall(Str("get_task"), a) : a \in WideTaskArgs }
    \cup { ToolCall(n, a) : n \in {Absent, Str("check_balance")},
                            a \in {NoArgs("absent"), NoArgs("dict"), NoArgs("list")} }

\* The decoded messages of the single-message runs.
WideRequests ==
    Requests
    \cup { Request("dict", id, mp[1], mp[2]) : id \in Ids, mp \in MethodParams }
    \cup { Request("dict", Num(7), Str("tools/call"), p) : p \in WideToolCalls }
    \cup { Request(s, Absent, Absent, NoParams("absent")) : s \in {"str", "int", "null"} }

-----------------------------------------------------------------------------
(* Line transport: run_stdio *)

Line(kind, request) == [kind |-> kind, request |-> request]
NoRequest == Request("none", Absent, Absent, NoParams("absent"))

\* process_request was not called for the line.
NotCalled ==
    [kind |-> "notcalled", response |-> None, exc |-> "", calls |-> <<>>, log |-> "",
     handler |-> ""]

Init ==
    /\ pc = "reading"
    /\ stdin_read = <<>>
    /\ stdout = <<>>
    /\ remote = <<>>
    /\ ret = NotCalled
    /\ rfile = Line("none", NoRequest)
    /\ wfile = <<>>

\* for line in sys.stdin: the loop is running and the input has a next line.
CanRead == pc = "reading" /\ Len(stdin_read) < MaxLines

\* line.strip() is empty: continue.
SkipBlank ==
    /\ CanRead
    /\ stdin_read' = Append(stdin_read, Line("blank", NoRequest))
    /\ ret' = NotCalled
    /\ remote' = <<>>
    /\ UNCHANGED <<pc, stdout, rfile, wfile>>

\* json.loads raises JSONDecodeError: print the parse error, continue.
ParseErrorEndsLoop ==
    /\ CanRead
    /\ stdin_read' = Append(stdin_read, Line("malformed", NoRequest))
    /\ stdout' = Append(stdout, create_error(None, ParseErrorCode, Msg("Parse error", Absent)))
    /\ ret' = NotCalled
    /\ remote' = <<>>
    /\ pc' = "eof"
    /\ UNCHANGED <<rfile, wfile>>
ParseError ==
    /\ CanRead
    /\ stdin_read' = Append(stdin_read, Line("malformed", NoRequest))
    /\ stdout' = Append(stdout, create_error(None, ParseErrorCode, Msg("Parse error", Absent)))
    /\ ret' = NotCalled
    /\ remote' = <<>>
    /\ UNCHANGED <<pc, rfile, wfile>>

\* The rest of one iteration: process_request, then print a non-None response.
\* An exception out of process_request is caught nowhere: run_stdio ends.
Step(request, ro) ==
    LET r == process_request(request, ro) IN
    /\ stdin_read' = Append(stdin_read, Line("json", request))
    /\ ret' = r
    /\ remote' = r.calls
    /\ pc' = IF r.kind = "raise" THEN "crashed" ELSE pc
    /\ stdout' = IF r.kind = "response" /\ r.response # None
                 THEN Append(stdout, r.response) ELSE stdout
    /\ UNCHANGED <<rfile, wfile>>

Dispatch ==
    /\ CanRead
    /\ \E request \in Requests : \E ro \in OutcomesFor(request, TRUE) : Step(request, ro)

\* sys.stdin is closed: the for-loop ends and run_stdio returns.
Close ==
    /\ pc = "reading"
    /\ pc' = "eof"
    /\ UNCHANGED <<stdin_read, stdout, remote, ret, rfile, wfile>>

Next == SkipBlank \/ ParseError \/ Dispatch \/ Close

Spec == Init /\ [][Next]_vars

\* One message of any shape, against a remote service that answers in any way:
\* the first iteration of the loop on a decodable line.
DispatchAny ==
    /\ pc = "reading"
    /\ stdin_read = <<>>
    /\ \E request \in WideRequests : \E ro \in OutcomesFor(request, FALSE) : Step(request, ro)

NextRequest == DispatchAny

SpecRequest == Init /\ [][NextRequest]_vars

-----------------------------------------------------------------------------
(* Connection transport: MCPHTTPHandler.do_POST *)

HttpOk == 200
HttpBadRequest == 400
HttpServerError == 500

\* _send_json_response(data, status): one status line, headers and a JSON body.
HttpResponse(status, data) == [status |-> status, body |-> data]

\* {"status": "ok"}
SyntheticOk == [status |-> "ok"]

\* What do_POST sends for the value process_request returned or the exception
\* it raised: the envelope, the synthetic body for None, or the 500 of the
\* `except Exception` branch.
HttpReplyLeavesRaise(r) ==
    CASE r.kind = "raise" -> <<>>
      [] r.kind = "response" /\ r.response # None -> <<HttpResponse(HttpOk, r.response)>>
      [] OTHER -> <<HttpResponse(HttpOk, SyntheticOk)>>
HttpReply(r) ==
    CASE r.kind = "raise" ->
            <<HttpResponse(HttpServerError, create_error(None, HandlerErrorCode, Msg("", Str(r.exc))))>>
      [] r.kind = "response" /\ r.response # None -> <<HttpResponse(HttpOk, r.response)>>
      [] OTHER -> <<HttpResponse(HttpOk, SyntheticOk)>>

\* The bodies that never reach process_request: a Content-Length that is not
\* an integer (ValueError), an empty body, bytes that are not UTF-8
\* (UnicodeDecodeError), text that is not JSON (JSONDecodeError).
UndispatchedBodies == {"badlength", "empty", "undecodable", "malformed"}

HttpRefusal(kind) ==
    CASE kind = "empty" ->
            HttpResponse(HttpBadRequest, create_error(None, ParseErrorCode, Msg("Empty request body", Absent)))
      [] kind = "malformed" ->
            HttpResponse(HttpBadRequest, create_error(None, ParseErrorCode, Msg("Parse error", Absent)))
      [] kind = "badlength" ->
            HttpResponse(HttpServerError, create_error(None, HandlerErrorCode, Msg("", Str("ValueError"))))
      [] OTHER ->
            HttpResponse(HttpServerError, create_error(None, HandlerErrorCode, Msg("", Str("UnicodeDecodeError"))))

\* A POST whose body is not handed to process_request.
PostRefused ==
    \E kind \in UndispatchedBodies :
        /\ rfile' = Line(kind, NoRequest)
        /\ wfile' = <<HttpRefusal(kind)>>
        /\ ret' = NotCalled
        /\ remote' = <<>>
        /\ UNCHANGED <<pc, stdin_read, stdout>>

\* The answers of the remote service to the call a POSTed request makes.
HttpOutcomesFor(request) ==
    IF process_request(request, PlainOk).calls = <<>> THEN {Unused}
    ELSE {PlainOk} \cup Failures \cup OddBodies

\* A POST whose body decodes: process_request, then one response.
PostDispatched ==
    \E request \in Requests : \E ro \in HttpOutcomesFor(request) :
        LET r == process_request(request, ro) IN
        /\ rfile' = Line("json", request)
        /\ ret' = r
        /\ remote' = r.calls
        /\ wfile' = HttpReply(r)
        /\ UNCHANGED <<pc, stdin_read, stdout>>

do_POST == PostRefused \/ PostDispatched

NextHTTP == do_POST

SpecHTTP == Init /\ [][NextHTTP]_vars

-----------------------------------------------------------------------------
(* Properties *)

\* The line read last, and the message decoded from it.
LastLine == stdin_read[Len(stdin_read)]
LastReq == LastLine.request

\* The most recent line decoded as JSON and was handed to process_request.
Handled == stdin_read # <<>> /\ LastLine.kind = "json"

\* The decoded line is a JSON object with an "id" key (any value, null included).
CarriesId(request) == request.shape = "dict" /\ request.id # Absent

\* The decoded line is a JSON object without an "id" key.
LacksId(request) == request.shape = "dict" /\ request.id = Absent

IsResult(response) == "result" \in DOMAIN response
IsError(response) == "error" \in DOMAIN response

\* C1: every decoded message that carries an id gets exactly one response
\* envelope from process_request, holding either result or error, never both
\* and never neither.
C1_OneEnvelopePerId ==
    (Handled /\ CarriesId(LastReq)) =>
        /\ ret.kind = "response"
        /\ IsResult(ret.response) # IsError(ret.response)

\* C1 holds of the messages whose id is not null and whose method is hashable.
C1_WhenIdNotNull ==
    (Handled /\ CarriesId(LastReq) /\ LastReq.id # None /\ Hashable(LastReq.method)) =>
        /\ ret.kind = "response"
        /\ IsResult(ret.response) # IsError(ret.response)

\* C2: a message whose id is the explicit value null is a request:
\* process_request returns one envelope with id null and the line transport
\* writes it.
C2_NullIdAnswered ==
    (Handled /\ LastReq.shape = "dict" /\ LastReq.id = None) =>
        /\ ret.kind = "response"
        /\ ret.response.id = None
        /\ stdout # <<>>
        /\ stdout[Len(stdout)] = ret.response

\* The lines read so far that are not notifications: malformed lines and
\* decoded lines other than a JSON object without "id".  Blank lines are skipped.
RECURSIVE NonNotifications(_)
NonNotifications(lines) ==
    IF lines = <<>> THEN 0
    ELSE LET l == lines[Len(lines)]
             rest == NonNotifications(SubSeq(lines, 1, Len(lines) - 1))
         IN IF l.kind = "malformed" \/ (l.kind = "json" /\ ~LacksId(l.request))
            THEN rest + 1 ELSE rest

\* C3: a message lacking id never causes a write, and the number of lines
\* written equals the number of non-notification lines processed.
C3_WritesMatchRequests ==
    /\ (Handled /\ LacksId(LastReq)) => ret.kind # "response"
    /\ Len(stdout) = NonNotifications(stdin_read)

\* The first half of C3 holds: a message lacking id never writes a line.
C3_NoWriteWithoutId ==
    [][(Len(stdin_read') = Len(stdin_read) + 1
          /\ stdin_read'[Len(stdin_read')].kind = "json"
          /\ LacksId(stdin_read'[Len(stdin_read')].request)) => stdout' = stdout]_vars

\* C4: process_request never raises on a decoded message, and the read loop
\* keeps running.
C4_NeverRaises ==
    Handled => (ret.kind \in {"none", "response"} /\ pc # "crashed")

\* The handler of table entry h ran for the most recent line.
Ran(h) == Handled /\ ret.handler = h

\* What handle_tools_call read from params (meaningful when params is an object).
ToolName == Get(LastReq.params.name, Str(""))
ToolArgs == IF LastReq.params.arguments.shape = "absent" THEN NoArgs("dict")
            ELSE LastReq.params.arguments
RanTool(name) ==
    Ran("tools/call") /\ LastReq.params.shape = "dict" /\ ToolName = Str(name)

\* The one remote call of the most recent line failed: no response, a
\* non-2xx status, or a body that does not decode.
RemoteFailed == remote # <<>> /\ ~Succeeds(remote[1].outcome)

\* A successful envelope whose result is flagged as an error result:
\* isError plus text content.
FlaggedResult(response) ==
    /\ IsResult(response)
    /\ response.result.isError = Bool(TRUE)
    /\ response.result.content # <<>>

\* C5 (as claimed): for every tools/call request, special-cased or forwarded,
\* a remote failure yields a successful response flagged as an error result
\* and never a JSON-RPC error envelope.
C5_RemoteFailureFlagged ==
    (Ran("tools/call") /\ RemoteFailed) =>
        (ret.kind = "response" /\ FlaggedResult(ret.response))

\* What the dispatcher does with a failed remote call: for generate_video and
\* get_task the result is flagged as an error result whose text repeats the
\* failure; for a forwarded tool the {"error": ...} mapping of make_request
\* becomes the error envelope with code -32000.
C5_FailureChannelByTool ==
    (Ran("tools/call") /\ RemoteFailed) =>
        /\ ret.kind = "response"
        /\ IF RanTool("generate_video") \/ RanTool("get_task")
           THEN /\ FlaggedResult(ret.response)
                /\ ret.response.result.content[1].k = "Error"
                /\ ~IsError(ret.response)
           ELSE /\ IsError(ret.response)
                /\ ~IsResult(ret.response)
                /\ ret.response.error.code = HandlerErrorCode
                /\ ret.response.error.message = Msg("", Str(ExcText(remote[1].outcome)))

C5_Witness ==
    /\ RanTool("generate_video")
    /\ RemoteFailed
    /\ remote[1].outcome.status = 402
    /\ FlaggedResult(ret.response)
    /\ ret.response.result.content = <<TextLine("Error", Str("Insufficient balance"))>>

\* One iteration read a line that is not valid JSON.
MalformedRead ==
    /\ Len(stdin_read') = Len(stdin_read) + 1
    /\ stdin_read'[Len(stdin_read')].kind = "malformed"

IsParseError(line) ==
    IsError(line) /\ ~IsResult(line) /\ line.id = None /\ line.error.code = ParseErrorCode

\* The outcome the remote service gave to the most recent line, if it was called.
LastOutcome == IF remote = <<>> THEN Unused ELSE remote[1].outcome

\* C6: a malformed line writes exactly one response, with id null and code
\* -32700, and leaves the loop reading; a decodable line read after it is
\* processed as it would be alone.
C6_ParseErrorThenContinue ==
    /\ [][MalformedRead =>
            /\ Len(stdout') = Len(stdout) + 1
            /\ SubSeq(stdout', 1, Len(stdout)) = stdout
            /\ IsParseError(stdout'[Len(stdout')])
            /\ pc' = "reading"]_vars
    /\ [](\A k \in 1..(Len(stdin_read) - 1) :
            (stdin_read[k].kind = "malformed" /\ k + 1 = Len(stdin_read) /\ Handled) =>
                /\ ret = process_request(LastReq, LastOutcome)
                /\ IF ret.kind = "response"
                   THEN stdout # <<>> /\ stdout[Len(stdout)] = ret.response
                   ELSE stdout # <<>> /\ IsParseError(stdout[Len(stdout)]))

C6_Witness ==
    /\ Len(stdin_read) = 2
    /\ stdin_read[1].kind = "malformed"
    /\ stdin_read[2].kind = "json"
    /\ Len(stdout) = 2
    /\ IsParseError(stdout[1])
    /\ IsResult(stdout[2])
    /\ pc = "reading"

\* C7: a request with an id whose method is not in the table gets the error
\* response with its own id, code -32601 and a message naming the method, and
\* no remote call is made.
C7_UnknownMethod ==
    (Handled /\ CarriesId(LastReq)
        /\ ~(LastReq.method.tag = "str" /\ LastReq.method.s \in METHOD_HANDLERS)) =>
        /\ ret.kind = "response"
        /\ ret.response = create_error(LastReq.id, MethodNotFoundCode,
                                       Msg("Method not found: ", Get(LastReq.method, Str(""))))
        /\ remote = <<>>

\* C7 holds of the requests whose id is not null and whose method is hashable.
C7_WhenIdNotNull ==
    (Handled /\ CarriesId(LastReq) /\ LastReq.id # None /\ Hashable(LastReq.method)
        /\ ~(LastReq.method.tag = "str" /\ LastReq.method.s \in METHOD_HANDLERS)) =>
        /\ ret.kind = "response"
        /\ ret.response = create_error(LastReq.id, MethodNotFoundCode,
                                       Msg("Method not found: ", Get(LastReq.method, Str(""))))
        /\ remote = <<>>

\* C8: generate_video with an absent or empty prompt, and get_task with an
\* absent or empty task_id, return a result with the error flag set and text
\* content, and no remote call is attempted.
C8_MissingArgumentRejected ==
    \A tool \in {"generate_video", "get_task"} :
        LET arg == IF tool = "generate_video" THEN ToolArgs.prompt ELSE ToolArgs.task_id
        IN (RanTool(tool) /\ ToolArgs.shape = "dict" /\ arg \in {Absent, Str("")}) =>
              /\ ret.kind = "response"
              /\ FlaggedResult(ret.response)
              /\ ~IsError(ret.response)
              /\ remote = <<>>

C8_Witness ==
    /\ RanTool("generate_video")
    /\ ToolArgs.shape = "dict"
    /\ ToolArgs.prompt = Str("")
    /\ ToolArgs.duration = Num(4)
    /\ FlaggedResult(ret.response)
    /\ remote = <<>>

\* The task-creation calls among the remote calls of the most recent line.
TaskCreations == { i \in 1..Len(remote) : remote[i].endpoint.path = "/v3/tasks" }

\* v is numerically one of the allowed durations.
AllowedDuration(v) == v.tag \in {"int", "float"} /\ v.n \in {4, 6, 8}
AllowedAspectRatio(v) == v \in {Str("16:9"), Str("9:16")}
AllowedResolution(v) == v \in {Str("720p"), Str("1080p")}

\* C9: every task-creation payload generate_video sends has duration in
\* {4, 6, 8}, aspect_ratio in {"16:9", "9:16"} and resolution in
\* {"720p", "1080p"}: a supplied allowed value is kept, any other value (or none)
\* becomes 8, "16:9", "720p"; the replacement surfaces no error: the call is
\* made, and a plain success answers with an unflagged result.
C9_PayloadCoerced ==
    /\ \A i \in TaskCreations :
          LET sent == remote[i].payload.params IN
          /\ RanTool("generate_video")
          /\ AllowedDuration(sent.duration)
          /\ AllowedAspectRatio(sent.aspect_ratio)
          /\ AllowedResolution(sent.resolution)
          /\ sent.duration =
                IF AllowedDuration(ToolArgs.duration) THEN ToolArgs.duration ELSE Num(8)
          /\ sent.aspect_ratio =
                IF AllowedAspectRatio(ToolArgs.aspect_ratio) THEN ToolArgs.aspect_ratio
                ELSE Str("16:9")
          /\ sent.resolution =
                IF AllowedResolution(ToolArgs.resolution) THEN ToolArgs.resolution
                ELSE Str("720p")
    /\ (RanTool("generate_video") /\ ToolArgs.shape = "dict" /\ Truthy(ToolArgs.prompt)) =>
          /\ TaskCreations = {1}
          /\ Len(remote) = 1
          /\ (remote[1].outcome \in CreatedTasks) =>
                (IsResult(ret.response) /\ ret.response.result.isError = Absent)

C9_Witness ==
    /\ RanTool("generate_video")
    /\ ToolArgs.duration = Num(5)
    /\ ToolArgs.aspect_ratio = Str("4:3")
    /\ ToolArgs.resolution = Str("4k")
    /\ TaskCreations = {1}
    /\ remote[1].payload.params.duration = Num(8)
    /\ remote[1].payload.params.aspect_ratio = Str("16:9")
    /\ remote[1].payload.params.resolution = Str("720p")
    /\ IsResult(ret.response)
    /\ ret.response.result.isError = Absent

\* The output-URL lines of a text block.
IsUrlLine(l) == l.k \in {"Audio URL", "Video URL", "Image URL"}
UrlLines(content) == SelectSeq(content, IsUrlLine)

\* The task document the remote service returned to get_task.
TaskDoc == remote[1].outcome.body
FirstItem == TaskDoc.result.items.first
HasFirstItem == TaskDoc.result.items.shape = "list"

\* The URL line the priority order prescribes for a completed task: the first
\* item's audio_url; else video_url or output_url; else image_url, falling
\* back to the first item's image_url; else none.
PrescribedUrlLines ==
    LET r == TaskDoc.result IN
    CASE HasFirstItem /\ Truthy(FirstItem.audio_url) ->
            <<TextLine("Audio URL", FirstItem.audio_url)>>
      [] Truthy(r.video_url) -> <<TextLine("Video URL", r.video_url)>>
      [] Truthy(r.output_url) -> <<TextLine("Video URL", r.output_url)>>
      [] Truthy(r.image_url) -> <<TextLine("Image URL", r.image_url)>>
      [] HasFirstItem /\ Truthy(FirstItem.image_url) ->
            <<TextLine("Image URL", FirstItem.image_url)>>
      [] OTHER -> <<>>

\* get_task answered with its summary of a task document.
TaskSummarised ==
    /\ RanTool("get_task")
    /\ remote # <<>>
    /\ remote[1].outcome \in TaskDocs
    /\ IsResult(ret.response)

\* C10: get_task on a completed task emits at most one output-URL line, the
\* one the priority order prescribes; a completed music task whose first item
\* has an audio_url gets the audio line and no video or image line.
C10_OneUrlLineByPriority ==
    (TaskSummarised /\ TaskDoc.status = Str("completed")) =>
        LET urls == UrlLines(ret.response.result.content) IN
        /\ Len(urls) <= 1
        /\ urls = PrescribedUrlLines
        /\ (TaskDoc.type = Str("music") /\ HasFirstItem
                /\ FirstItem.audio_url = Str("https://x/a.mp3")) =>
              urls = <<TextLine("Audio URL", Str("https://x/a.mp3"))>>

C10_Witness ==
    /\ TaskSummarised
    /\ TaskDoc.status = Str("completed")
    /\ TaskDoc.type = Str("music")
    /\ HasFirstItem
    /\ FirstItem.audio_url = Str("https://x/a.mp3")
    /\ TaskDoc.result.video_url = Str("https://x/v.mp4")
    /\ TaskDoc.result.image_url = Str("https://x/i.png")
    /\ UrlLines(ret.response.result.content) = <<TextLine("Audio URL", Str("https://x/a.mp3"))>>

\* The lines of a summary after its header: task, type, status, estimated
\* cost, and the actual cost when it is shown.
HeaderLabels == <<"Task", "Type", "Status", "Estimated Cost">>
HeaderLen(content) ==
    IF Len(content) > Len(HeaderLabels) /\ content[Len(HeaderLabels) + 1].k = "Actual Cost"
    THEN Len(HeaderLabels) + 1 ELSE Len(HeaderLabels)
Trailing(content) == SubSeq(content, HeaderLen(content) + 1, Len(content))
HasHeader(content) ==
    /\ Len(content) >= Len(HeaderLabels)
    /\ \A i \in 1..Len(HeaderLabels) : content[i].k = HeaderLabels[i]

\* The status the summary reports: "unknown" when the document has none.
TaskStatus == Get(TaskDoc.status, Str("unknown"))
InProgress == InStrs(TaskStatus, {"pending", "queued", "executing"})
FailedWithMessage == TaskStatus = Str("failed") /\ Truthy(GetNone(TaskDoc.error_message))

\* C11 (as claimed): after the header the summary ends with exactly one line
\* when the status is completed (a URL line), failed with an error message (the
\* error line with that message) or pending/queued/executing (the notice);
\* with any other status it ends with no extra line.
C11_ExactlyOneStatusLine ==
    TaskSummarised =>
        LET content == ret.response.result.content
            trailing == Trailing(content)
        IN  /\ HasHeader(content)
            /\ CASE TaskStatus = Str("completed") ->
                        Len(trailing) = 1 /\ IsUrlLine(trailing[1])
                  [] FailedWithMessage ->
                        trailing = <<TextLine("Error", TaskDoc.error_message)>>
                  [] InProgress -> trailing = <<TextLine("Task is still", TaskStatus)>>
                  [] OTHER -> trailing = <<>>

\* C11 (amended): as C11, except that a completed task ends with the one URL
\* line only when an output URL is available; a completed task with no
\* audio, video, output or image URL ends with no extra line.
C11_StatusLineWhenAvailable ==
    TaskSummarised =>
        LET content == ret.response.result.content
            trailing == Trailing(content)
        IN  /\ HasHeader(content)
            /\ Len(trailing) <= 1
            /\ CASE TaskStatus = Str("completed") ->
                        /\ trailing = PrescribedUrlLines
                        /\ \A l \in {trailing[i] : i \in 1..Len(trailing)} : IsUrlLine(l)
                  [] FailedWithMessage ->
                        trailing = <<TextLine("Error", TaskDoc.error_message)>>
                  [] InProgress -> trailing = <<TextLine("Task is still", TaskStatus)>>
                  [] OTHER -> trailing = <<>>

C11_Witness ==
    /\ TaskSummarised
    /\ TaskDoc.status = Str("failed")
    /\ TaskDoc.error_message = Str("quota exceeded")
    /\ HeaderLen(ret.response.result.content) = 5
    /\ Trailing(ret.response.result.content) = <<TextLine("Error", Str("quota exceeded"))>>

\* C12: every POST gets exactly one HTTP response with a JSON body: 200 with
\* the dispatcher's envelope for a request, 200 with {"status": "ok"} when the
\* dispatcher returned nothing, 400 with a -32700 error body for malformed
\* JSON, 500 with a -32000 error body for any other failure.
C12_OneHttpResponsePerPost ==
    (rfile.kind # "none") =>
        /\ Len(wfile) = 1
        /\ CASE rfile.kind = "json" /\ ret.kind = "response" ->
                    wfile[1] = HttpResponse(HttpOk, ret.response)
                    /\ (IsResult(ret.response) \/ IsError(ret.response))
              [] rfile.kind = "json" /\ ret.kind = "none" ->
                    wfile[1] = HttpResponse(HttpOk, SyntheticOk)
              [] rfile.kind \in {"malformed", "empty"} ->
                    wfile[1].status = HttpBadRequest /\ IsParseError(wfile[1].body)
              [] OTHER ->
                    /\ wfile[1].status = HttpServerError
                    /\ IsError(wfile[1].body) /\ ~IsResult(wfile[1].body)
                    /\ wfile[1].body.id = None
                    /\ wfile[1].body.error.code = HandlerErrorCode

\* A POSTed request whose method is a JSON array: process_request raises, and
\* the POST is answered with the 500.
C12_Witness ==
    /\ rfile.kind = "json"
    /\ ret.kind = "raise"
    /\ Len(wfile) = 1
    /\ wfile[1].status = HttpServerError
    /\ wfile[1].body.error.code = HandlerErrorCode

\* The canned result of estimate_video_cost.
CannedEstimate ==
    TextResult(<<TextLine("Video Generation Cost", Str("$1.96 USD (fixed price)")),
                 TextLine("Provider", Str("Veo 3.1")),
                 TextLine("Requires", Str("Tier 2+"))>>)

\* C13: estimate_video_cost makes no remote call and returns, for every
\* duration and every generate_audio value, the same result, not flagged as an
\* error, whose text states "$1.96".
C13_EstimateIsCanned ==
    (RanTool("estimate_video_cost") /\ ToolArgs.shape = "dict") =>
        /\ remote = <<>>
        /\ ret.calls = <<>>
        /\ ret.kind = "response"
        /\ IsResult(ret.response) /\ ~IsError(ret.response)
        /\ ret.response.result = CannedEstimate
        /\ ret.response.result.isError = Absent

C13_Witness ==
    /\ RanTool("estimate_video_cost")
    /\ ToolArgs.duration = Num(4)
    /\ ToolArgs.generate_audio = Bool(FALSE)
    /\ remote = <<>>
    /\ ret.response.result.content[1] =
            TextLine("Video Generation Cost", Str("$1.96 USD (fixed price)"))

\* The {"error": message} text the client function gives for the failed call.
FailureText ==
    IF RanTool("generate_video") THEN v3_error_detail(remote[1].outcome)
    ELSE Str(ExcText(remote[1].outcome))

\* The failure text sits once in the response: as the message of the error
\* envelope, or as the one text line of a flagged result.
CarriesFailureOnce(response) ==
    \/ /\ IsError(response) /\ ~IsResult(response)
       /\ response.error.message = Msg("", FailureText)
    \/ /\ FlaggedResult(response) /\ ~IsError(response)
       /\ response.result.content = <<TextLine("Error", FailureText)>>

\* C14: handling one message issues at most one remote call; when that call
\* fails, no second call follows and the failure goes once into the message's
\* single response.
C14_NoRetry ==
    Handled =>
        /\ Len(remote) <= 1
        /\ ret.calls = remote
        /\ RemoteFailed =>
              /\ ret.kind = "response"
              /\ CarriesFailureOnce(ret.response)
              /\ stdout = <<ret.response>>

C14_Witness ==
    /\ Ran("resources/list")
    /\ Len(remote) = 1
    /\ remote[1].outcome.status = 0
    /\ stdout = <<create_error(LastReq.id, HandlerErrorCode, Msg("", Str("ConnectError")))>>

\* The ids the output owes to the lines read, in order: the id of every decoded
\* message carrying one, and null for a malformed line (its parse error).
RECURSIVE OwedIds(_)
OwedIds(lines) ==
    IF lines = <<>> THEN <<>>
    ELSE LET l == lines[Len(lines)]
             rest == OwedIds(SubSeq(lines, 1, Len(lines) - 1))
         IN CASE l.kind = "malformed" -> Append(rest, None)
              [] l.kind = "json" /\ CarriesId(l.request) -> Append(rest, l.request.id)
              [] OTHER -> rest

\* The ids of the lines written, in order.
WrittenIds == [k \in 1..Len(stdout) |-> stdout[k].id]

\* No line read so far has a null id or a method or shape that makes
\* process_request raise.
RECURSIVE WellFormedLines(_)
WellFormedLines(lines) ==
    \/ lines = <<>>
    \/ LET l == lines[Len(lines)] IN
       /\ WellFormedLines(SubSeq(lines, 1, Len(lines) - 1))
       /\ l.kind = "json" =>
             /\ l.request.shape = "dict"
             /\ l.request.id # None
             /\ process_request(l.request, PlainOk).kind # "raise"

\* C15: the response to a line is written before the next line is read, so the
\* k-th line written carries the id of the k-th id-bearing line read, and a
\* blank line writes nothing.
C15_ResponsesInRequestOrder ==
    /\ [](WrittenIds = OwedIds(stdin_read))
    /\ [][/\ Len(stdout') <= Len(stdout) + 1
           /\ (Len(stdin_read') = Len(stdin_read) + 1
                 /\ stdin_read'[Len(stdin_read')].kind = "blank") => stdout' = stdout]_vars

\* C15 holds as long as no line has a null id or makes process_request raise.
C15_WhenWellFormed ==
    /\ [](WellFormedLines(stdin_read) => WrittenIds = OwedIds(stdin_read))
    /\ [][/\ Len(stdout') <= Len(stdout) + 1
           /\ (Len(stdin_read') = Len(stdin_read) + 1
                 /\ stdin_read'[Len(stdin_read')].kind = "blank") => stdout' = stdout]_vars

\* C16: a message without id never reaches a handler, whatever its method:
\* process_request returns None before the method lookup, no remote call is
\* made and no task is created.
C16_IdlessReturnsNone ==
    (Handled /\ LacksId(LastReq)) =>
        /\ ret.kind = "none"
        /\ ret.handler = ""
        /\ remote = <<>>
        /\ stdout = <<>>

\* The frame part of C16 holds of every message without id: no handler runs
\* and no remote call is made, whether process_request returns or raises.
C16_IdlessMakesNoCall ==
    (Handled /\ LacksId(LastReq)) =>
        /\ ret.kind \in {"none", "raise"}
        /\ ret.handler = ""
        /\ ret.calls = <<>>
        /\ remote = <<>>
        /\ stdout = <<>>

====
